---- MODULE Spec2Model ----
(***************************************************************************)
(* Walk-forward analysis notebook (42_VectorbtWalkforwardAnalysis.ipynb).  *)
(*                                                                         *)
(* The notebook is a straight line of cells: rolling_split, then           *)
(* simulate_all_params, get_best_index, simulate_best_params, the two      *)
(* score-vector extractions and stats.ttest_ind.  Each cell is one action; *)
(* pc names the cell that runs next.  The library calls a cell makes       *)
(* (vectorbt's rolling_split and MA.run_combs, pandas' groupby/idxmax and  *)
(* label lookup, scipy's ttest_ind) are modelled by what they compute for  *)
(* the arguments the cell passes.                                          *)
(*                                                                         *)
(* Index ranges are half-open pairs <<lo, hi>> over 0-based positions.     *)
(* A score is an integer, or NaN.  A raised Python exception ends the run: *)
(* pc = "raised" and err names the exception type and the cell.            *)
(***************************************************************************)
EXTENDS Integers, Sequences, FiniteSets, TLC

VARIABLES
    pc,               \* the cell that runs next, or "done" / "raised"
    cfg,              \* rolling_split arguments and the series length
    windows,          \* candidate moving-average windows (cell "windows = ...")
    higher_better,    \* get_best_index's flag
    splits,           \* (in_indexes, out_indexes) per split_idx, in order
    in_sharpe,        \* rows [split_idx, fast_window, slow_window, sharpe]
    in_best_index,    \* labels [split_idx, fast_window, slow_window]
    out_test_sharpe,  \* one score per column of out_price
    in_sample_best,   \* in_sharpe[in_best_index].values
    out_sample_test,  \* out_test_sharpe.values
    simCalls,         \* log of Portfolio.from_signals columns simulated
    ttest,            \* [calls, stat]: invocations and result of ttest_ind
    err               \* [type, cell] of the raised exception, or NoErr

vars == <<pc, cfg, windows, higher_better, splits, in_sharpe, in_best_index,
          out_test_sharpe, in_sample_best, out_sample_test, simCalls, ttest, err>>

----------------------------------------------------------------------------
\* Bounds of the model.

SplitMaxLen == 10      \* series lengths 0..SplitMaxLen for the splitter
SplitMaxWin == 6       \* window_len 1..SplitMaxWin for the splitter
SplitMaxSet == 3       \* set_lens = (k,) with k in 0..SplitMaxSet
SplitMaxN == 3         \* n in 1..SplitMaxN, or not given

----------------------------------------------------------------------------
\* Values.

NaN == -1              \* the score of a degenerate simulation (float nan)
NoErr == [type |-> "", cell |-> ""]
NoTest == [calls |-> 0, stat |-> "none"]

Max(a, b) == IF a >= b THEN a ELSE b

\* np.arange(a, b): a, a+1, .., b-1 (empty when b <= a)
Arange(a, b) == [i \in 1..Max(b - a, 0) |-> a + i - 1]

\* the positions of a half-open range
Idx(r) == r[1]..(r[2] - 1)

\* np.round of the rational num/den (den > 0, num >= 0): half to even
RoundHalfEven(num, den) ==
    LET q == num \div den
        r == num % den
    IN  IF 2 * r < den THEN q
        ELSE IF 2 * r > den THEN q + 1
        ELSE IF q % 2 = 0 THEN q ELSE q + 1

----------------------------------------------------------------------------
\* vectorbt RollingSplitter.split as the notebook calls it.

\* Faulty variant: windows placed side by side (stride window_len).
StrideStartIdxs(len, window_len) ==
    [i \in 1..(len \div window_len) |-> (i - 1) * window_len]

\* Faulty variant: one window is kept even when the series is too short.
PaddedStartIdxs(len, window_len) == Arange(0, Max(len - window_len + 1, 1))

\* start_idxs = np.arange(len(index) - window_len + 1): every window start
start_idxs(len, window_len) == Arange(0, len - window_len + 1)

\* idxs = np.round(np.linspace(0, m - 1, n)).astype(int): n of the m windows
linspace_idxs(m, n) ==
    [i \in 1..n |-> IF n = 1 THEN 0 ELSE RoundHalfEven((i - 1) * (m - 1), n - 1)]

\* split_ranges_into_sets for one window [start, start + window_len) and
\* set_lens = (set_len,), set_len < window_len: the remainder is put first
\* when left_to_right is False, last when it is True.  The notebook unpacks
\* the first set as in-sample and the second as out-of-sample.
\* Faulty variant of it: the first set runs one position into the second.
OverlapSetRanges(start, window_len, set_len, left_to_right) ==
    [in  |-> <<start, start + window_len - set_len + 1>>,
     out |-> <<start + window_len - set_len, start + window_len>>]

set_ranges(start, window_len, set_len, left_to_right) ==
    LET first == IF left_to_right THEN set_len ELSE window_len - set_len
    IN  [in  |-> <<start, start + first>>,
         out |-> <<start + first, start + window_len>>]

\* The whole call: [ok, splits].  It raises ValueError when no window fits
\* (len < window_len), when n exceeds the number of windows, when a set is
\* empty (set_len = 0) or when the sets leave no remainder
\* (set_len >= window_len).  n = 0 stands for "n not given".
rolling_split(len, window_len, set_len, n, left_to_right) ==
    LET all == start_idxs(len, window_len)
        m == Len(all)
        chosen == IF n = 0 THEN all
                  ELSE [i \in 1..n |-> all[linspace_idxs(m, n)[i] + 1]]
    IN  IF m = 0 \/ n > m \/ set_len = 0 \/ set_len >= window_len
        THEN [ok |-> FALSE, splits |-> <<>>]
        ELSE [ok |-> TRUE,
              splits |-> [i \in 1..Len(chosen) |->
                            set_ranges(chosen[i], window_len, set_len, left_to_right)]]

\* cell: (in_price, in_indexes), (out_price, out_indexes) = price.vbt.rolling_split(...)
RollingSplit ==
    /\ pc = "rolling_split"
    /\ LET r == rolling_split(cfg.len, cfg.window_len, cfg.set_len, cfg.n,
                              cfg.left_to_right)
       IN  IF r.ok
           THEN /\ splits' = r.splits
                /\ pc' = "simulate_all_params"
                /\ err' = NoErr
           ELSE /\ splits' = <<>>
                /\ pc' = "raised"
                /\ err' = [type |-> "ValueError", cell |-> "rolling_split"]
    /\ UNCHANGED <<cfg, windows, higher_better, in_sharpe, in_best_index,
                   out_test_sharpe, in_sample_best, out_sample_test, simCalls, ttest>>

\* The splitter on its own: any series length and any arguments.
SplitInit ==
    /\ pc = "rolling_split"
    /\ cfg \in [len : 0..SplitMaxLen, window_len : 1..SplitMaxWin,
                set_len : 0..SplitMaxSet, n : 0..SplitMaxN,
                left_to_right : BOOLEAN]
    /\ windows = <<>>
    /\ higher_better = TRUE
    /\ splits = <<>>
    /\ in_sharpe = <<>>
    /\ in_best_index = <<>>
    /\ out_test_sharpe = <<>>
    /\ in_sample_best = <<>>
    /\ out_sample_test = <<>>
    /\ simCalls = <<>>
    /\ ttest = NoTest
    /\ err = NoErr

SplitNext == RollingSplit

SplitSpec == SplitInit /\ [][SplitNext]_vars

----------------------------------------------------------------------------
\* simulate_all_params: the parameter grid and the in-sample score table.

MaxScore == 2          \* finite scores are 1..MaxScore
GridMaxCand == 3       \* candidates 10, 20, .. for the grid on its own
MaxLen == 4            \* series lengths 0..MaxLen for the whole notebook
MaxWin == 3            \* window_len 1..MaxWin for the whole notebook
MaxSet == 2            \* set_lens = (k,) with k in 1..MaxSet
MaxN == 2              \* n in 1..MaxN
MaxWindows == 3        \* windows = np.arange(WindowsStart, WindowsStart + k)

WindowsStart == 10     \* windows = np.arange(10, 50)

Scores == {NaN} \cup (1..MaxScore)

\* vbt.MA.run_combs(price, windows, r=2): itertools.combinations(windows, 2),
\* the pairs (windows[i], windows[j]) of positions i < j, for i ascending
\* and, within one i, j ascending.
\* Faulty variant: a candidate is also paired with itself.
RECURSIVE WithReplacementFrom(_, _)
WithReplacementFrom(w, i) ==
    IF i > Len(w) THEN <<>>
    ELSE [j \in 1..(Len(w) - i + 1) |-> <<w[i], w[i + j - 1]>>]
         \o WithReplacementFrom(w, i + 1)

RECURSIVE CombsFrom(_, _)
CombsFrom(w, i) ==
    IF i >= Len(w) THEN <<>>
    ELSE [j \in 1..(Len(w) - i) |-> <<w[i], w[i + j]>>] \o CombsFrom(w, i + 1)

CombinationsWithReplacement(w) == WithReplacementFrom(w, 1)

combinations(w) == CombsFrom(w, 1)

\* The columns of the indicator output: one per (pair, split), the pair as
\* the outer level and split_idx as the inner one.
Columns(grid, nsplits) ==
    [c \in 1..(Len(grid) * nsplits) |->
        [split_idx   |-> (c - 1) % nsplits,
         fast_window |-> grid[((c - 1) \div nsplits) + 1][1],
         slow_window |-> grid[((c - 1) \div nsplits) + 1][2]]]

\* One simulated column: the split, the positions of the series it saw and
\* the parameter pair.
SimCall(set, col, seg) ==
    [set |-> set, split_idx |-> col.split_idx, seg |-> seg,
     fast_window |-> col.fast_window, slow_window |-> col.slow_window]

Row(col, score) ==
    [split_idx |-> col.split_idx, fast_window |-> col.fast_window,
     slow_window |-> col.slow_window, sharpe |-> score]

\* Faulty variant of the case of fewer than two windows: the single windows
\* are simulated before the failure.
AllParamsLateCheck(w, sp) ==
    [ok |-> FALSE,
     calls |-> [i \in 1..(Len(w) * Len(sp)) |->
                  SimCall("in_sample",
                          [split_idx |-> (i - 1) % Len(sp),
                           fast_window |-> w[((i - 1) \div Len(sp)) + 1],
                           slow_window |-> w[((i - 1) \div Len(sp)) + 1]],
                          sp[((i - 1) % Len(sp)) + 1].in)],
     cols |-> <<>>]

\* With fewer than two windows run_combs returns no pair of indicators and
\* the unpacking "fast_ma, slow_ma = ..." raises before
\* Portfolio.from_signals: nothing is simulated.
AllParamsTooFew(w, sp) == [ok |-> FALSE, calls |-> <<>>, cols |-> <<>>]

\* simulate_all_params(in_price, windows): [ok, calls, cols]
simulate_all_params(w, sp) ==
    IF Len(w) < 2 THEN AllParamsTooFew(w, sp)
    ELSE LET cols == Columns(combinations(w), Len(sp))
         IN  [ok |-> TRUE,
              calls |-> [c \in DOMAIN cols |->
                           SimCall("in_sample", cols[c],
                                   sp[cols[c].split_idx + 1].in)],
              cols |-> cols]

\* cell: in_sharpe = simulate_all_params(in_price, windows, ...)
\* The simulator is external: each column's Sharpe ratio is any score.
SimulateAllParams ==
    /\ pc = "simulate_all_params"
    /\ LET r == simulate_all_params(windows, splits)
       IN  /\ simCalls' = simCalls \o r.calls
           /\ IF r.ok
              THEN /\ \E f \in [DOMAIN r.cols -> Scores] :
                         in_sharpe' = [c \in DOMAIN r.cols |-> Row(r.cols[c], f[c])]
                   /\ pc' = "get_best_index"
                   /\ err' = err
              ELSE /\ in_sharpe' = in_sharpe
                   /\ pc' = "raised"
                   /\ err' = [type |-> "ValueError", cell |-> "simulate_all_params"]
    /\ UNCHANGED <<cfg, windows, higher_better, splits, in_best_index,
                   out_test_sharpe, in_sample_best, out_sample_test, ttest>>

\* Sequences without repetition over a set, up to a length.
DistinctSeqs(S, maxLen) ==
    UNION {{q \in [1..k -> S] : \A i, j \in 1..k : i # j => q[i] # q[j]} :
              k \in 0..maxLen}

\* The grid on its own: one split, any sequence of distinct candidates.
GridCfg == [len |-> 3, window_len |-> 3, set_len |-> 1, n |-> 1,
            left_to_right |-> FALSE]

GridInit ==
    /\ pc = "simulate_all_params"
    /\ cfg = GridCfg
    /\ windows \in DistinctSeqs({10 * i : i \in 1..GridMaxCand}, GridMaxCand)
    /\ higher_better = TRUE
    /\ splits = rolling_split(GridCfg.len, GridCfg.window_len, GridCfg.set_len,
                              GridCfg.n, GridCfg.left_to_right).splits
    /\ in_sharpe = <<>>
    /\ in_best_index = <<>>
    /\ out_test_sharpe = <<>>
    /\ in_sample_best = <<>>
    /\ out_sample_test = <<>>
    /\ simCalls = <<>>
    /\ ttest = NoTest
    /\ err = NoErr

GridNext == SimulateAllParams

GridSpec == GridInit /\ [][GridNext]_vars

----------------------------------------------------------------------------
\* get_best_index: the best row of each split_idx group.

SelMaxRows == 3        \* rows of a score table given to get_best_index alone

Label(row) ==
    [split_idx |-> row.split_idx, fast_window |-> row.fast_window,
     slow_window |-> row.slow_window]

\* the group keys of groupby('split_idx'), ascending
RECURSIVE SortedSeq(_)
SortedSeq(S) ==
    IF S = {} THEN <<>>
    ELSE LET m == CHOOSE x \in S : \A y \in S : x <= y
         IN  <<m>> \o SortedSeq(S \ {m})

GroupKeys(t) == {t[i].split_idx : i \in DOMAIN t}

Better(hb, a, b) == IF hb THEN a > b ELSE a < b

\* Faulty variant: NaN compared as an ordinary (lowest) number
ExtremeRowCountingNaN(t, s, hb) ==
    LET G == {i \in DOMAIN t : t[i].split_idx = s}
    IN  CHOOSE i \in G :
            /\ \A j \in G : ~Better(hb, t[j].sharpe, t[i].sharpe)
            /\ \A j \in G : j < i => Better(hb, t[i].sharpe, t[j].sharpe)

\* Faulty variant: the last of several equal extremes is returned
LastExtremeRow(t, s, hb) ==
    LET V == {i \in DOMAIN t : t[i].split_idx = s /\ t[i].sharpe # NaN}
    IN  IF V = {} THEN 0
        ELSE CHOOSE i \in V :
                /\ \A j \in V : ~Better(hb, t[j].sharpe, t[i].sharpe)
                /\ \A j \in V : j > i => Better(hb, t[i].sharpe, t[j].sharpe)

\* Series.idxmax / idxmin of the group s (skipna): the position of the first
\* row, in the table's row order, that holds the extreme of the group's
\* non-NaN scores; 0 (a NaN label) when the group has no non-NaN score.
extreme_row(t, s, hb) ==
    LET V == {i \in DOMAIN t : t[i].split_idx = s /\ t[i].sharpe # NaN}
    IN  IF V = {} THEN 0
        ELSE CHOOSE i \in V :
                /\ \A j \in V : ~Better(hb, t[j].sharpe, t[i].sharpe)
                /\ \A j \in V : j < i => Better(hb, t[i].sharpe, t[j].sharpe)

\* Faulty variant: a group's NaN label is dropped instead of raising
BestIndexSkippingNaN(t, hb) ==
    LET keys == SortedSeq({k \in GroupKeys(t) : extreme_row(t, k, hb) # 0})
    IN  [ok |-> TRUE,
         index |-> [k \in DOMAIN keys |-> Label(t[extreme_row(t, keys[k], hb)])]]

\* performance[performance.groupby('split_idx').idxmax()].index : one label
\* per group, in ascending split_idx.  A group without a non-NaN score
\* yields a NaN label, and looking that label up raises (KeyError): the
\* call then returns nothing for any group.
get_best_index(t, hb) ==
    LET keys == SortedSeq(GroupKeys(t))
        pos == [k \in DOMAIN keys |-> extreme_row(t, keys[k], hb)]
    IN  IF \E k \in DOMAIN keys : pos[k] = 0
        THEN [ok |-> FALSE, index |-> <<>>]
        ELSE [ok |-> TRUE, index |-> [k \in DOMAIN keys |-> Label(t[pos[k]])]]

\* cell: in_best_index = get_best_index(in_sharpe)
GetBestIndex ==
    /\ pc = "get_best_index"
    /\ LET r == get_best_index(in_sharpe, higher_better)
       IN  IF r.ok
           THEN /\ in_best_index' = r.index
                /\ pc' = "simulate_best_params"
                /\ err' = err
           ELSE /\ in_best_index' = in_best_index
                /\ pc' = "raised"
                /\ err' = [type |-> "KeyError", cell |-> "get_best_index"]
    /\ UNCHANGED <<cfg, windows, higher_better, splits, in_sharpe,
                   out_test_sharpe, in_sample_best, out_sample_test, simCalls, ttest>>

\* get_best_index on its own: any table of at most SelMaxRows rows with
\* distinct labels over two splits and the grid of three windows, in any
\* row order, and either direction.
SelWindows == <<10, 20, 30>>
SelSplitIds == {0, 1}

SelLabels ==
    {[split_idx |-> s, fast_window |-> combinations(SelWindows)[g][1],
      slow_window |-> combinations(SelWindows)[g][2]] :
        s \in SelSplitIds, g \in DOMAIN combinations(SelWindows)}

TableOf(labs, f) ==
    [i \in DOMAIN labs |->
        [split_idx |-> labs[i].split_idx, fast_window |-> labs[i].fast_window,
         slow_window |-> labs[i].slow_window, sharpe |-> f[i]]]

SelInit ==
    /\ pc = "get_best_index"
    /\ cfg = GridCfg
    /\ windows = SelWindows
    /\ higher_better \in BOOLEAN
    /\ splits = <<>>
    /\ \E labs \in DistinctSeqs(SelLabels, SelMaxRows) :
          \E f \in [DOMAIN labs -> Scores] : in_sharpe = TableOf(labs, f)
    /\ in_best_index = <<>>
    /\ out_test_sharpe = <<>>
    /\ in_sample_best = <<>>
    /\ out_sample_test = <<>>
    /\ simCalls = <<>>
    /\ ttest = NoTest
    /\ err = NoErr

SelNext == GetBestIndex

SelSpec == SelInit /\ [][SelNext]_vars

----------------------------------------------------------------------------
\* simulate_best_params on the out-of-sample columns.

\* get_best_params(in_best_index, 'fast_window') / (.., 'slow_window')
in_best_fast_windows == [i \in DOMAIN in_best_index |-> in_best_index[i].fast_window]
in_best_slow_windows == [i \in DOMAIN in_best_index |-> in_best_index[i].slow_window]

\* Faulty variant: column i simulated with the windows of the next split
BestParamsRotated(sp, fast, slow) ==
    [ok |-> Len(fast) = Len(sp) /\ Len(slow) = Len(sp),
     calls |-> [i \in DOMAIN sp |->
                  SimCall("out_sample",
                          [split_idx |-> i - 1,
                           fast_window |-> fast[(i % Len(sp)) + 1],
                           slow_window |-> slow[(i % Len(sp)) + 1]],
                          sp[i].out)]]

\* vbt.MA.run(price, window=best_*_windows, per_column=True): column i of
\* out_price (split i-1) gets window i of each array, which must have one
\* entry per column; Portfolio.from_signals then simulates each column once.
simulate_best_params(sp, fast, slow) ==
    [ok |-> Len(fast) = Len(sp) /\ Len(slow) = Len(sp),
     calls |-> [i \in DOMAIN sp |->
                  SimCall("out_sample",
                          [split_idx |-> i - 1, fast_window |-> fast[i],
                           slow_window |-> slow[i]],
                          sp[i].out)]]

\* cell: out_test_sharpe = simulate_best_params(out_price, in_best_fast_windows,
\*                                              in_best_slow_windows, ...)
SimulateBestParams ==
    /\ pc = "simulate_best_params"
    /\ LET r == simulate_best_params(splits, in_best_fast_windows,
                                     in_best_slow_windows)
       IN  IF r.ok
           THEN /\ simCalls' = simCalls \o r.calls
                /\ out_test_sharpe' \in [DOMAIN splits -> Scores]
                /\ pc' = "in_sample_best"
                /\ err' = err
           ELSE /\ simCalls' = simCalls
                /\ out_test_sharpe' = out_test_sharpe
                /\ pc' = "raised"
                /\ err' = [type |-> "ValueError", cell |-> "simulate_best_params"]
    /\ UNCHANGED <<cfg, windows, higher_better, splits, in_sharpe, in_best_index,
                   in_sample_best, out_sample_test, ttest>>

----------------------------------------------------------------------------
\* The two score vectors and the t-test.

\* performance[label]: the score of the row with that label
ScoreAt(t, lab) == t[CHOOSE i \in DOMAIN t : Label(t[i]) = lab].sharpe

\* cell: in_sample_best = in_sharpe[in_best_index].values
ExtractInSampleBest ==
    /\ pc = "in_sample_best"
    /\ in_sample_best' = [i \in DOMAIN in_best_index |->
                            ScoreAt(in_sharpe, in_best_index[i])]
    /\ pc' = "out_sample_test"
    /\ UNCHANGED <<cfg, windows, higher_better, splits, in_sharpe, in_best_index,
                   out_test_sharpe, out_sample_test, simCalls, ttest, err>>

\* cell: out_sample_test = out_test_sharpe.values
ExtractOutSampleTest ==
    /\ pc = "out_sample_test"
    /\ out_sample_test' = out_test_sharpe
    /\ pc' = "ttest_ind"
    /\ UNCHANGED <<cfg, windows, higher_better, splits, in_sharpe, in_best_index,
                   out_test_sharpe, in_sample_best, simCalls, ttest, err>>

RECURSIVE SumSeq(_)
SumSeq(q) == IF q = <<>> THEN 0 ELSE Head(q) + SumSeq(Tail(q))

HasNaN(q) == \E i \in DOMAIN q : q[i] = NaN

\* Faulty variant: the inputs are checked and misaligned ones refused
TTestGuarded(a, b) ==
    IF Len(a) # Len(b) \/ Len(a) = 0 \/ Len(b) = 0
    THEN [ok |-> FALSE, stat |-> "none"]
    ELSE [ok |-> TRUE, stat |-> "checked"]

\* stats.ttest_ind(a, b, alternative="greater"): no check of the lengths.
\* The statistic is nan for an empty sample, a NaN score or zero degrees of
\* freedom; otherwise it has the sign of mean(a) - mean(b) (0/0 is nan).
ttest_ind(a, b) ==
    [ok |-> TRUE,
     stat |->
        IF Len(a) = 0 \/ Len(b) = 0 \/ HasNaN(a) \/ HasNaN(b)
           \/ Len(a) + Len(b) = 2
        THEN "nan"
        ELSE LET d == SumSeq(a) * Len(b) - SumSeq(b) * Len(a)
                 flat == /\ \A i, j \in DOMAIN a : a[i] = a[j]
                         /\ \A i, j \in DOMAIN b : b[i] = b[j]
             IN  IF d > 0 THEN "positive"
                 ELSE IF d < 0 THEN "negative"
                 ELSE IF flat THEN "nan" ELSE "zero"]

\* Faulty variant: the test does not wait for simulate_best_params and the
\* extraction of the two vectors.
TTestEarly ==
    /\ pc \in {"simulate_best_params", "in_sample_best", "out_sample_test",
               "ttest_ind"}
    /\ ttest' = [calls |-> ttest.calls + 1,
                 stat |-> ttest_ind(out_sample_test, in_sample_best).stat]
    /\ pc' = "done"
    /\ UNCHANGED <<cfg, windows, higher_better, splits, in_sharpe, in_best_index,
                   out_test_sharpe, in_sample_best, out_sample_test, simCalls, err>>

\* cell: t, p = stats.ttest_ind(a=out_sample_test, b=in_sample_best,
\*                              alternative="greater")
TTest ==
    /\ pc = "ttest_ind"
    /\ LET r == ttest_ind(out_sample_test, in_sample_best)
       IN  IF r.ok
           THEN /\ ttest' = [calls |-> ttest.calls + 1, stat |-> r.stat]
                /\ pc' = "done"
                /\ err' = err
           ELSE /\ ttest' = ttest
                /\ pc' = "raised"
                /\ err' = [type |-> "Exception", cell |-> "ttest_ind"]
    /\ UNCHANGED <<cfg, windows, higher_better, splits, in_sharpe, in_best_index,
                   out_test_sharpe, in_sample_best, out_sample_test, simCalls>>

\* The comparison cell on its own: it reads two notebook variables, here any
\* two score vectors of up to MaxVec entries.
MaxVec == 2

Vectors == UNION {[1..k -> Scores] : k \in 0..MaxVec}

CompareInit ==
    /\ pc = "ttest_ind"
    /\ cfg = GridCfg
    /\ windows = <<>>
    /\ higher_better = TRUE
    /\ splits = <<>>
    /\ in_sharpe = <<>>
    /\ in_best_index = <<>>
    /\ out_test_sharpe = <<>>
    /\ in_sample_best \in Vectors
    /\ out_sample_test \in Vectors
    /\ simCalls = <<>>
    /\ ttest = NoTest
    /\ err = NoErr

CompareNext == TTest

CompareSpec == CompareInit /\ [][CompareNext]_vars

----------------------------------------------------------------------------
\* The whole notebook, cell after cell.

Init ==
    /\ pc = "rolling_split"
    /\ cfg \in [len : 0..MaxLen, window_len : 1..MaxWin, set_len : 1..MaxSet,
                n : 1..MaxN, left_to_right : {FALSE}]
    /\ windows \in {Arange(WindowsStart, WindowsStart + k) : k \in 0..MaxWindows}
    /\ higher_better = TRUE
    /\ splits = <<>>
    /\ in_sharpe = <<>>
    /\ in_best_index = <<>>
    /\ out_test_sharpe = <<>>
    /\ in_sample_best = <<>>
    /\ out_sample_test = <<>>
    /\ simCalls = <<>>
    /\ ttest = NoTest
    /\ err = NoErr

Next ==
    \/ RollingSplit
    \/ SimulateAllParams
    \/ GetBestIndex
    \/ SimulateBestParams
    \/ ExtractInSampleBest
    \/ ExtractOutSampleTest
    \/ TTest

Spec == Init /\ [][Next]_vars

----------------------------------------------------------------------------
\* Properties of the splitter (SplitSpec).

SplitReturned == pc # "rolling_split" /\ pc # "raised"
Window(sp) == Idx(sp.in) \cup Idx(sp.out)

\* C1: every Split the call produces has disjoint in-sample and out-of-sample
\* ranges, every in-sample position precedes every out-of-sample position,
\* and the two ranges together hold exactly window_len positions.
C1_SplitRangesPartitionWindow ==
    \A i \in DOMAIN splits :
        /\ Idx(splits[i].in) \cap Idx(splits[i].out) = {}
        /\ \A a \in Idx(splits[i].in), b \in Idx(splits[i].out) : a < b
        /\ Cardinality(Window(splits[i])) = cfg.window_len

C1_Witness ==
    /\ SplitReturned
    /\ cfg.n >= 2 /\ Len(splits) = cfg.n
    /\ cfg.set_len >= 2 /\ cfg.window_len >= 4
    /\ ~cfg.left_to_right

\* The first rolling_split cell: sr has 10 points, window_len=5,
\* set_lens=(1,), left_to_right=False, n not given.
DemoCfg == [len |-> 10, window_len |-> 5, set_len |-> 1, n |-> 0,
            left_to_right |-> FALSE]

\* C2 as claimed: the 10-point demo yields exactly 2 splits, [0,5) with
\* out-of-sample {4} and [5,10) with out-of-sample {9}.
C2_Original ==
    (cfg = DemoCfg /\ pc # "rolling_split") =>
        /\ SplitReturned
        /\ Len(splits) = 2
        /\ Window(splits[1]) = 0..4 /\ Idx(splits[1].out) = {4}
        /\ Window(splits[2]) = 5..9 /\ Idx(splits[2].out) = {9}

\* C2 as amended: the 10-point demo yields exactly 6 splits, one per window
\* start 0..5, in increasing split_idx: split i covers [i, i+5) and its
\* out-of-sample range is {i+4}; the first is [0,5) with {4}, the last
\* [5,10) with {9}.
C2_DemoYieldsSixRollingSplits ==
    (cfg = DemoCfg /\ pc # "rolling_split") =>
        /\ SplitReturned
        /\ Len(splits) = 6
        /\ \A i \in 1..6 :
              /\ Window(splits[i]) = (i - 1)..(i + 3)
              /\ Idx(splits[i].out) = {i + 3}
              /\ Idx(splits[i].in) = (i - 1)..(i + 2)

C2_Witness == cfg = DemoCfg /\ SplitReturned /\ Len(splits) = 6

\* C9: a series shorter than window_len makes the call raise and return no
\* split; and no returned split ever has a window that holds fewer than
\* window_len observations of the series.
C9_ShortSeriesRaises ==
    pc # "rolling_split" =>
        /\ cfg.len < cfg.window_len =>
              /\ pc = "raised"
              /\ err = [type |-> "ValueError", cell |-> "rolling_split"]
              /\ splits = <<>>
        /\ \A i \in DOMAIN splits :
              /\ Window(splits[i]) \subseteq 0..(cfg.len - 1)
              /\ Cardinality(Window(splits[i])) = cfg.window_len

\* the length is the only reason to fail here
C9_Witness ==
    /\ pc = "raised" /\ err.cell = "rolling_split"
    /\ cfg.len >= 1 /\ cfg.len < cfg.window_len
    /\ cfg.set_len >= 1 /\ cfg.set_len < cfg.len
    /\ cfg.n = 1

----------------------------------------------------------------------------
\* Properties of the parameter grid (GridSpec: one split, so the rows of
\* in_sharpe are the grid in enumeration order).

GridReturned == pc = "get_best_index"
GridPairs ==
    [i \in DOMAIN in_sharpe |-> <<in_sharpe[i].fast_window, in_sharpe[i].slow_window>>]
Choose2(k) == (k * (k - 1)) \div 2
LexBefore(p, q) == p[1] < q[1] \/ (p[1] = q[1] /\ p[2] < q[2])
PosIn(w, v) == CHOOSE i \in DOMAIN w : w[i] = v
PosPair(w, p) == <<PosIn(w, p[1]), PosIn(w, p[2])>>
Increasing(w) == \A i, j \in DOMAIN w : i < j => w[i] < w[j]

\* C3 as claimed: any sequence of k >= 2 distinct candidates yields C(k,2)
\* pairs, none twice, each with first < second, in lexicographic order of
\* (first, second); [10,20,30] yields (10,20),(10,30),(20,30).
C3_Original ==
    (pc # "simulate_all_params" /\ Len(windows) >= 2) =>
        /\ GridReturned
        /\ Len(GridPairs) = Choose2(Len(windows))
        /\ \A i, j \in DOMAIN GridPairs : i # j => GridPairs[i] # GridPairs[j]
        /\ \A i \in DOMAIN GridPairs : GridPairs[i][1] < GridPairs[i][2]
        /\ \A i, j \in DOMAIN GridPairs :
              i < j => LexBefore(GridPairs[i], GridPairs[j])
        /\ windows = <<10, 20, 30>> =>
              GridPairs = << <<10, 20>>, <<10, 30>>, <<20, 30>> >>

\* C3 as amended: any sequence of k >= 2 distinct candidates yields C(k,2)
\* pairs, none twice, each made of an earlier and a later candidate of the
\* sequence, in lexicographic order of the two positions; when the sequence
\* is increasing every pair has first < second and the pairs are in
\* lexicographic order of (first, second); [10,20,30] yields
\* (10,20),(10,30),(20,30).
C3_GridIsCombinationsByPosition ==
    (pc # "simulate_all_params" /\ Len(windows) >= 2) =>
        /\ GridReturned
        /\ Len(GridPairs) = Choose2(Len(windows))
        /\ \A i, j \in DOMAIN GridPairs : i # j => GridPairs[i] # GridPairs[j]
        /\ \A i \in DOMAIN GridPairs :
              /\ GridPairs[i][1] \in {windows[k] : k \in DOMAIN windows}
              /\ GridPairs[i][2] \in {windows[k] : k \in DOMAIN windows}
              /\ PosIn(windows, GridPairs[i][1]) < PosIn(windows, GridPairs[i][2])
        /\ \A i, j \in DOMAIN GridPairs :
              i < j => LexBefore(PosPair(windows, GridPairs[i]),
                                 PosPair(windows, GridPairs[j]))
        /\ Increasing(windows) =>
              /\ \A i \in DOMAIN GridPairs : GridPairs[i][1] < GridPairs[i][2]
              /\ \A i, j \in DOMAIN GridPairs :
                    i < j => LexBefore(GridPairs[i], GridPairs[j])
        /\ windows = <<10, 20, 30>> =>
              GridPairs = << <<10, 20>>, <<10, 30>>, <<20, 30>> >>

C3_Witness ==
    /\ GridReturned
    /\ windows = <<10, 20, 30>>
    /\ GridPairs = << <<10, 20>>, <<10, 30>>, <<20, 30>> >>

----------------------------------------------------------------------------
\* Properties of get_best_index (SelSpec).

SelReturned == pc = "simulate_best_params"
GroupRows(t, s) == {i \in DOMAIN t : t[i].split_idx = s}
ValidScores(t, s) == {t[i].sharpe : i \in {j \in GroupRows(t, s) : t[j].sharpe # NaN}}
HasValid(s) == ValidScores(in_sharpe, s) # {}
IsExtreme(x, S, hb) == x \in S /\ \A y \in S : ~Better(hb, y, x)
Selected(s) == {k \in DOMAIN in_best_index : in_best_index[k].split_idx = s}
InTable(lab) == \E i \in DOMAIN in_sharpe : Label(in_sharpe[i]) = lab

\* the selected label of split s is a row of s with the extreme non-NaN score
SelectsExtreme(s) ==
    /\ Cardinality(Selected(s)) = 1
    /\ \A k \in Selected(s) :
          /\ InTable(in_best_index[k])
          /\ ScoreAt(in_sharpe, in_best_index[k]) # NaN
          /\ IsExtreme(ScoreAt(in_sharpe, in_best_index[k]),
                       ValidScores(in_sharpe, s), higher_better)

\* C4 as claimed: every split whose group has a non-NaN score gets a pair
\* of that split whose score is non-NaN and the maximum (higher_better) or
\* minimum (otherwise) of the split's non-NaN scores.
C4_Original ==
    pc # "get_best_index" =>
        \A s \in GroupKeys(in_sharpe) : HasValid(s) => SelectsExtreme(s)

\* C4 as amended: when every split of the table has a non-NaN score, every
\* split gets a pair of that split whose score is non-NaN and the maximum
\* (higher_better) or minimum (otherwise) of the split's non-NaN scores;
\* when some split has only NaN scores the call raises and returns no pair
\* for any split; a NaN-scored pair is never returned.
C4_SelectsExtremeUnlessSomeGroupAllNaN ==
    pc # "get_best_index" =>
        /\ (\A s \in GroupKeys(in_sharpe) : HasValid(s)) =>
              /\ SelReturned
              /\ \A s \in GroupKeys(in_sharpe) : SelectsExtreme(s)
        /\ (\E s \in GroupKeys(in_sharpe) : ~HasValid(s)) =>
              /\ pc = "raised"
              /\ in_best_index = <<>>
        /\ \A k \in DOMAIN in_best_index :
              /\ InTable(in_best_index[k])
              /\ ScoreAt(in_sharpe, in_best_index[k]) # NaN

\* a split with a NaN row and two different usable scores
C4_Witness ==
    /\ SelReturned
    /\ \E s \in GroupKeys(in_sharpe) :
          /\ \E i \in GroupRows(in_sharpe, s) : in_sharpe[i].sharpe = NaN
          /\ Cardinality(ValidScores(in_sharpe, s)) = 2
          /\ SelectsExtreme(s)

\* the position of a label's pair in the grid's enumeration order
GridPos(lab) ==
    CHOOSE g \in DOMAIN combinations(windows) :
        combinations(windows)[g] = <<lab.fast_window, lab.slow_window>>

\* the rows of split s that share its extreme score
TiedRows(s) ==
    {i \in GroupRows(in_sharpe, s) :
        /\ in_sharpe[i].sharpe # NaN
        /\ IsExtreme(in_sharpe[i].sharpe, ValidScores(in_sharpe, s), higher_better)}
HasTie(s) == Cardinality(TiedRows(s)) >= 2
SelectedRow(s) ==
    CHOOSE i \in DOMAIN in_sharpe :
        \E k \in Selected(s) : Label(in_sharpe[i]) = in_best_index[k]
RowsInGridOrder(s) ==
    \A i, j \in GroupRows(in_sharpe, s) :
        i < j => GridPos(Label(in_sharpe[i])) < GridPos(Label(in_sharpe[j]))

\* C5 as claimed: among several pairs of a split that share the extreme
\* score, the one first in the grid's enumeration order is returned,
\* whatever the order of the table's rows.
C5_Original ==
    SelReturned =>
        \A s \in GroupKeys(in_sharpe) :
            HasTie(s) =>
                \A i \in TiedRows(s) :
                    GridPos(Label(in_sharpe[SelectedRow(s)]))
                        <= GridPos(Label(in_sharpe[i]))

\* C5 as amended: among several pairs of a split that share the extreme
\* score, the one whose row comes first in the table is returned; when the
\* split's rows are in the grid's enumeration order (as simulate_all_params
\* builds them) that is the pair first in the grid's enumeration order.
C5_TieGoesToFirstRow ==
    SelReturned =>
        \A s \in GroupKeys(in_sharpe) :
            HasTie(s) =>
                /\ SelectedRow(s) \in TiedRows(s)
                /\ \A i \in TiedRows(s) : SelectedRow(s) <= i
                /\ RowsInGridOrder(s) =>
                      \A i \in TiedRows(s) :
                          GridPos(Label(in_sharpe[SelectedRow(s)]))
                              <= GridPos(Label(in_sharpe[i]))

C5_Witness ==
    /\ SelReturned
    /\ \E s \in GroupKeys(in_sharpe) :
          /\ HasTie(s)
          /\ Cardinality(GroupRows(in_sharpe, s)) = 3
          /\ RowsInGridOrder(s)
          /\ SelectedRow(s) = 2

----------------------------------------------------------------------------
\* Properties of the whole notebook (Spec).

TableBuilt == in_sharpe # <<>>
SplitIds == 0..(Len(splits) - 1)
AllNaNSplits == {s \in SplitIds : TableBuilt /\ ~HasValid(s)}
Ended == pc \in {"done", "raised"}
OosCalls == {i \in DOMAIN simCalls : simCalls[i].set = "out_sample"}
ValidateReturned == pc \in {"in_sample_best", "out_sample_test", "ttest_ind", "done"}

\* C6 as claimed: a split whose group has no usable score gets no pair and
\* no ValidationResult entry, and the run still ends with one
\* ValidationResult entry for every other split: skipped splits plus
\* entries equal the number of splits.
C6_Original ==
    (Ended /\ TableBuilt) =>
        /\ \A s \in AllNaNSplits :
              /\ Selected(s) = {}
              /\ \A i \in OosCalls : simCalls[i].split_idx # s
        /\ Len(out_test_sharpe) + Cardinality(AllNaNSplits) = Len(splits)

\* C6 as amended: when some split's group has only NaN scores,
\* get_best_index raises and the run ends there: no pair is recorded for
\* that split or any other, no out-of-sample simulation runs, no
\* ValidationResult entry exists, the t-test is not invoked and nothing
\* (no skipped-split count) is reported.
C6_AllNaNGroupEndsRun ==
    (TableBuilt /\ AllNaNSplits # {} /\ pc # "get_best_index") =>
        /\ pc = "raised"
        /\ err = [type |-> "KeyError", cell |-> "get_best_index"]
        /\ in_best_index = <<>>
        /\ OosCalls = {}
        /\ out_test_sharpe = <<>>
        /\ in_sample_best = <<>> /\ out_sample_test = <<>>
        /\ ttest = NoTest

\* one of two splits has only NaN scores, the other a usable one
C6_Witness ==
    /\ pc = "raised" /\ err.cell = "get_best_index"
    /\ Len(splits) = 2
    /\ Cardinality(AllNaNSplits) = 1

\* C7: simulate_best_params simulates each split exactly once, on exactly
\* that split's out-of-sample range (no in-sample position), with exactly
\* the pair selected for that split; before it runs, and in runs that end
\* before it, nothing is simulated out of sample.
C7_OutOfSampleOncePerSplitWithOwnPair ==
    /\ \A i \in OosCalls :
          LET c == simCalls[i] IN
          /\ c.split_idx \in SplitIds
          /\ c.seg = splits[c.split_idx + 1].out
          /\ Idx(c.seg) \cap Idx(splits[c.split_idx + 1].in) = {}
          /\ \E k \in Selected(c.split_idx) :
                /\ in_best_index[k].fast_window = c.fast_window
                /\ in_best_index[k].slow_window = c.slow_window
    /\ ValidateReturned =>
          \A s \in SplitIds :
              /\ Cardinality(Selected(s)) = 1
              /\ Cardinality({i \in OosCalls : simCalls[i].split_idx = s}) = 1
    /\ ~ValidateReturned => OosCalls = {}

\* two splits that selected different pairs
C7_Witness ==
    /\ ValidateReturned
    /\ Len(splits) = 2
    /\ in_best_index[1].slow_window # in_best_index[2].slow_window
    /\ Cardinality(OosCalls) = 2

\* the error of a grid of fewer than two windows
ConfigErrorRaised == pc = "raised" /\ err.cell = "simulate_all_params"

\* C10: when the run ends with the grid's configuration error, no simulator
\* invocation has happened before it, and none happens after it.
C10_ConfigErrorBeforeAnySimulation ==
    /\ [](ConfigErrorRaised => simCalls = <<>>)
    /\ [][ConfigErrorRaised => simCalls' = simCalls]_vars

C10_Witness ==
    /\ ConfigErrorRaised
    /\ Len(splits) = 2
    /\ Len(windows) = 1
    /\ simCalls = <<>>

\* every split has its selection, its one out-of-sample simulation and its
\* entry of out_test_sharpe
ValidationComplete ==
    /\ Len(splits) >= 1
    /\ Len(out_test_sharpe) = Len(splits)
    /\ \A s \in SplitIds :
          /\ Cardinality(Selected(s)) = 1
          /\ Cardinality({i \in OosCalls : simCalls[i].split_idx = s}) = 1

\* C11: in every run the t-test is invoked only in a state where every
\* split's out-of-sample score has been produced, and the vector it reads
\* is the whole of out_test_sharpe, one score per split; once it has been
\* invoked the scores do not change.
C11_TestOnlyAfterAllValidation ==
    /\ [][ttest' # ttest =>
            /\ ValidationComplete
            /\ out_sample_test = out_test_sharpe
            /\ Len(in_sample_best) = Len(splits)]_vars
    /\ [][ttest.calls > 0 =>
            /\ out_test_sharpe' = out_test_sharpe
            /\ out_sample_test' = out_sample_test]_vars

C11_Witness ==
    /\ pc = "done"
    /\ ttest.calls = 1
    /\ Len(splits) = 2
    /\ ValidationComplete
    /\ out_sample_test = out_test_sharpe

\* In the notebook's own run both score vectors hold one score per split
\* when the t-test is invoked.
VectorsAlignedAtTest ==
    pc \in {"ttest_ind", "done"} =>
        /\ Len(in_sample_best) = Len(splits)
        /\ Len(out_sample_test) = Len(splits)
        /\ Len(splits) >= 1

----------------------------------------------------------------------------
\* Properties of the comparison cell (CompareSpec).

Misaligned ==
    \/ Len(in_sample_best) # Len(out_sample_test)
    \/ Len(in_sample_best) = 0
    \/ Len(out_sample_test) = 0

====
